---- MODULE Spec2Model ----
(***************************************************************************)
(* Model of the Telegram platform adapter (class TelegramPlatform) and of  *)
(* the logger object it imports.  One adapter instance, its native         *)
(* Telegraf clients, and the calls a consumer can make on the adapter.     *)
(***************************************************************************)
EXTENDS Integers, Sequences, FiniteSets, TLC

\* ------------------------------------------------------------------ bounds
MaxClients == 2     \* native clients the adapter may construct in one run
MaxLaunches == 2    \* launch() calls accepted per native client
MaxSent == 2        \* outbound requests recorded at the native client
MaxListeners == 2   \* subscribers registered on the adapter
MaxPending == 2     \* message handlers suspended at the same time
MaxSignals == 2     \* termination signals handled by one process
MaxOtherClients == 1    \* native clients either of two adapters constructs
MaxOtherLaunches == 1   \* launches of one native client with two adapters
MaxOtherListeners == 1  \* listeners registered on either of two adapters

\* ------------------------------------------------------------ input domains
NULL == 0
Tokens == {"", "T"}                \* "" stands for an absent botToken
WebhookUrls == {"", "https://h"}   \* "" stands for an absent webhookUrl
Chats == {"7"}
\* config.allowedUsers: absent, empty, or a list of native ids / usernames
AllowLists == {[set |-> FALSE, users |-> {}], [set |-> TRUE, users |-> {}],
               [set |-> TRUE, users |-> {"99"}], [set |-> TRUE, users |-> {"alice"}]}

VARIABLES
    config,     \* this.config : TelegramConfig, fixed at construction
    bot,        \* this.bot : NULL or the index in native of the Telegraf client
    isRunning,  \* this.isRunning
    native,     \* the Telegraf objects constructed so far, in creation order
    sent,       \* outbound requests made on a native client's telegram API
    listeners,  \* EventEmitter: the event name of each listener, in registration order
    pending,    \* the updates whose handleMessage is suspended in getFileUrl
    app,        \* the process of the entry point: bootstrap and shutdown
    other,      \* a second TelegramPlatform instance: its fields and listeners
    last        \* the last call made on the adapter, its inputs and outcome

vars == <<config, bot, isRunning, native, sent, listeners, pending, app, other, last>>

\* the variables of the adapter
vars_adapter == <<config, bot, isRunning, native, sent, listeners, pending, last>>

\* ------------------------------------------------------------------ logger
\* `logger` (logger.ts:99) is the winston Logger instance; it offers the
\* methods of the npm levels.  platform/security/command/... are members of
\* the separate object `log` (logger.ts:102-167), not of `logger`.
LoggerMethods == {"error", "warn", "info", "http", "verbose", "debug", "silly", "log"}

\* TRUE iff logger.<m>(...) is callable; otherwise the call raises a TypeError.
LoggerHas(m) == m \in LoggerMethods

\* ---------------------------------------------------------- native client
\* A freshly constructed Telegraf object.
NewClient == [handlers |-> FALSE, launches |-> 0, mode |-> "none",
              active |-> FALSE, stops |-> 0]

\* setupEventHandlers(): registers the update handlers and the error hook.
setupEventHandlers(c) == [c EXCEPT !.handlers = TRUE]

\* bot.launch(...): the client starts listening (webhook) or polling.
Launch(c, m) == [c EXCEPT !.launches = @ + 1, !.mode = m, !.active = TRUE]

\* bot.stop(): the client releases its polling / listening.
NativeStop(c) == [c EXCEPT !.stops = @ + 1, !.active = FALSE]

\* ------------------------------------------------------------------ errors
Ok == [kind |-> "ok", msg |-> "", platform |-> ""]
PlatformError(m) == [kind |-> "PlatformError", msg |-> m, platform |-> "telegram"]
NativeError == [kind |-> "NativeError", msg |-> "native", platform |-> ""]

\* -------------------------------------------------------------- initialize
ConfigMissingBoth(cfg) == ~cfg.enabled /\ cfg.botToken = ""

\* the guard of initialize(): !this.config.enabled || !this.config.botToken
ConfigMissing(cfg) == ~cfg.enabled \/ cfg.botToken = ""

\* initialize() as a function of the adapter state and of whether the
\* Telegraf constructor throws.  Result: the new bot, native and the outcome.
InitializeResult(cfg, b, nat, ctorThrows) ==
    IF ConfigMissing(cfg)
    THEN [bot |-> b, native |-> nat,
          out |-> PlatformError("Telegram bot token is required")]
    ELSE IF ctorThrows
    THEN [bot |-> b, native |-> nat,
          out |-> PlatformError("Failed to initialize Telegram platform")]
    ELSE LET nat1 == Append(nat, setupEventHandlers(NewClient))
             b1 == Len(nat1)
         IN IF LoggerHas("platform")
            THEN [bot |-> b1, native |-> nat1, out |-> Ok]
            ELSE [bot |-> b1, native |-> nat1,
                  out |-> PlatformError("Failed to initialize Telegram platform")]

Initialize ==
    /\ Len(native) < MaxClients
    /\ \E ctorThrows \in BOOLEAN :
         LET r == InitializeResult(config, bot, native, ctorThrows)
         IN /\ bot' = r.bot
            /\ native' = r.native
            /\ last' = [op |-> "initialize", out |-> r.out, fail |-> ctorThrows,
                        fail2 |-> FALSE, preBot |-> bot, preRunning |-> isRunning,
                        preNative |-> native, preSent |-> sent]
    /\ UNCHANGED <<other, app, listeners, pending, config, isRunning, sent>>

\* ------------------------------------------------------------------- start
\* the delivery mode start() selects: webhook iff config.webhookUrl is set
LaunchMode(cfg) == IF cfg.webhookUrl # "" THEN "webhook" ELSE "polling"

\* start() with the running flag raised before the launch
StartResultEarlyFlag(cfg, b, run, nat, launchThrows, cmdThrows) ==
    IF b = NULL
    THEN [isRunning |-> run, native |-> nat, out |-> PlatformError("Bot not initialized")]
    ELSE IF launchThrows
    THEN [isRunning |-> TRUE, native |-> nat,
          out |-> PlatformError("Failed to start Telegram bot")]
    ELSE LET nat1 == [nat EXCEPT ![b] = Launch(@, LaunchMode(cfg))]
         IN IF ~LoggerHas("platform")
            THEN [isRunning |-> TRUE, native |-> nat1,
                  out |-> PlatformError("Failed to start Telegram bot")]
            ELSE [isRunning |-> TRUE, native |-> nat1, out |-> Ok]

\* start() as a function of the adapter state, of whether bot.launch throws
\* and of whether telegram.setMyCommands throws.
StartResult(cfg, b, run, nat, launchThrows, cmdThrows) ==
    IF b = NULL
    THEN [isRunning |-> run, native |-> nat, out |-> PlatformError("Bot not initialized")]
    ELSE IF launchThrows
    THEN [isRunning |-> run, native |-> nat,
          out |-> PlatformError("Failed to start Telegram bot")]
    ELSE LET nat1 == [nat EXCEPT ![b] = Launch(@, LaunchMode(cfg))]
         IN IF ~LoggerHas("platform")
            \* logger.platform(...) right after launch raises: isRunning not yet set
            THEN [isRunning |-> run, native |-> nat1,
                  out |-> PlatformError("Failed to start Telegram bot")]
            \* isRunning = true; setBotCommands() absorbs its own failure
            \* (cmdThrows); the closing logger.platform(...) succeeds
            ELSE [isRunning |-> TRUE, native |-> nat1, out |-> Ok]

Start ==
    /\ bot # NULL => native[bot].launches < MaxLaunches
    /\ \E launchThrows \in BOOLEAN, cmdThrows \in BOOLEAN :
         LET r == StartResult(config, bot, isRunning, native, launchThrows, cmdThrows)
         IN /\ isRunning' = r.isRunning
            /\ native' = r.native
            /\ last' = [op |-> "start", out |-> r.out, fail |-> launchThrows,
                        fail2 |-> cmdThrows, preBot |-> bot, preRunning |-> isRunning,
                        preNative |-> native, preSent |-> sent]
    /\ UNCHANGED <<other, app, listeners, pending, config, bot, sent>>

\* -------------------------------------------------------------------- stop
\* stop() as a function of the adapter state and of whether bot.stop() throws.
StopResult(b, run, nat, stopThrows) ==
    IF b # NULL /\ run
    THEN IF stopThrows
         \* caught and logged; isRunning = false is skipped
         THEN [isRunning |-> run, native |-> nat, out |-> Ok]
         \* bot.stop(); isRunning = false; a raising logger.platform(...) is
         \* absorbed by the catch block
         ELSE [isRunning |-> FALSE, native |-> [nat EXCEPT ![b] = NativeStop(@)],
               out |-> Ok]
    ELSE [isRunning |-> run, native |-> nat, out |-> Ok]

Stop ==
    /\ \E stopThrows \in BOOLEAN :
         LET r == StopResult(bot, isRunning, native, stopThrows)
         IN /\ isRunning' = r.isRunning
            /\ native' = r.native
            /\ last' = [op |-> "stop", out |-> r.out, fail |-> stopThrows,
                        fail2 |-> FALSE, preBot |-> bot, preRunning |-> isRunning,
                        preNative |-> native, preSent |-> sent,
                        prePending |-> pending]
    /\ UNCHANGED <<other, app, listeners, pending, config, bot, sent>>

\* ---------------------------------------------------------------- outbound
\* one request on bot.telegram: the client, the API method and the chat
Request(b, method, chat) == [client |-> b, method |-> method, chat |-> chat]

\* sendMessage / sendPhoto that reject the call instead of forwarding it
SendResultDrop(b, snt, method, chat, sendThrows) ==
    [sent |-> snt, out |-> PlatformError("Bot not initialized")]

\* sendMessage / sendPhoto that log a native error and return normally
SendResultSwallow(b, snt, method, chat, sendThrows) ==
    IF b = NULL
    THEN [sent |-> snt, out |-> PlatformError("Bot not initialized")]
    ELSE [sent |-> Append(snt, Request(b, method, chat)), out |-> Ok]

\* sendMessage / sendPhoto: guard on this.bot, forward, rethrow a native error
SendResult(b, snt, method, chat, sendThrows) ==
    IF b = NULL
    THEN [sent |-> snt, out |-> PlatformError("Bot not initialized")]
    ELSE [sent |-> Append(snt, Request(b, method, chat)),
          out |-> IF sendThrows THEN NativeError ELSE Ok]

\* sendTyping that forwards without looking at this.bot
TypingResultNoGuard(b, snt, chat, sendThrows) ==
    [sent |-> Append(snt, Request(b, "sendChatAction", chat)), out |-> Ok]

\* sendTyping that rethrows the native error
TypingResultRethrow(b, snt, chat, sendThrows) ==
    IF b = NULL
    THEN [sent |-> snt, out |-> Ok]
    ELSE [sent |-> Append(snt, Request(b, "sendChatAction", chat)),
          out |-> IF sendThrows THEN NativeError ELSE Ok]

\* sendTyping: returns silently without a bot, absorbs a native error
TypingResult(b, snt, chat, sendThrows) ==
    IF b = NULL
    THEN [sent |-> snt, out |-> Ok]
    ELSE [sent |-> Append(snt, Request(b, "sendChatAction", chat)), out |-> Ok]

sendMessage ==
    /\ Len(sent) < MaxSent
    /\ \E chat \in Chats, sendThrows \in BOOLEAN :
         LET r == SendResult(bot, sent, "sendMessage", chat, sendThrows)
         IN /\ sent' = r.sent
            /\ last' = [op |-> "sendMessage", out |-> r.out, fail |-> sendThrows,
                        fail2 |-> FALSE, preBot |-> bot, preRunning |-> isRunning,
                        preNative |-> native, preSent |-> sent]
    /\ UNCHANGED <<other, app, listeners, pending, config, bot, isRunning, native>>

sendPhoto ==
    /\ Len(sent) < MaxSent
    /\ \E chat \in Chats, sendThrows \in BOOLEAN :
         LET r == SendResult(bot, sent, "sendPhoto", chat, sendThrows)
         IN /\ sent' = r.sent
            /\ last' = [op |-> "sendPhoto", out |-> r.out, fail |-> sendThrows,
                        fail2 |-> FALSE, preBot |-> bot, preRunning |-> isRunning,
                        preNative |-> native, preSent |-> sent]
    /\ UNCHANGED <<other, app, listeners, pending, config, bot, isRunning, native>>

sendTyping ==
    /\ Len(sent) < MaxSent
    /\ \E chat \in Chats, sendThrows \in BOOLEAN :
         LET r == TypingResult(bot, sent, chat, sendThrows)
         IN /\ sent' = r.sent
            /\ last' = [op |-> "sendTyping", out |-> r.out, fail |-> sendThrows,
                        fail2 |-> FALSE, preBot |-> bot, preRunning |-> isRunning,
                        preNative |-> native, preSent |-> sent]
    /\ UNCHANGED <<other, app, listeners, pending, config, bot, isRunning, native>>

\* ---------------------------------------------------------- inbound updates
\* Number.prototype.toString / template-literal rendering of the numbers used
ToStr(n) ==
    CASE n = 1 -> "1" [] n = 2 -> "2" [] n = 5 -> "5"
      [] n = 42 -> "42" [] n = 99 -> "99" [] n = 1000 -> "1000"

\* ctx.from: absent, or a native user with an id and an optional username
\* ("" stands for an absent username)
NoFrom == [present |-> FALSE, id |-> 0, username |-> ""]
Senders == {[present |-> TRUE, id |-> 42, username |-> "alice"],
            [present |-> TRUE, id |-> 42, username |-> ""],
            [present |-> TRUE, id |-> 99, username |-> ""]}

\* PhotoSize entries of ctx.message.photo
Small == [file_id |-> "s", width |-> 90, file_size |-> 10]
Big == [file_id |-> "b", width |-> 800, file_size |-> 70]
PhotoLists == {<<>>, <<Small>>, <<Small, Big>>, <<Big, Small>>}

\* the payload fields parseMessage looks for, in the order it tests them
Kinds == <<"text", "photo", "voice", "document", "sticker", "location", "contact">>

\* the sets of payload fields carried by the updates of the model: none, each
\* single field, each pair of neighbours in the test order, and all seven
FieldSets ==
    {{}} \cup {{Kinds[i]} : i \in 1..7} \cup {{Kinds[i], Kinds[i + 1]} : i \in 1..6}
         \cup {{Kinds[i] : i \in 1..7}}

\* ctx.message with the payload fields in `has` present
Message(has, photo) ==
    [message_id |-> 5, has |-> has, text |-> "hi", photo |-> photo, caption |-> "cap",
     voice |-> [file_id |-> "v", mime_type |-> "audio/ogg", file_size |-> 30],
     document |-> [file_id |-> "d", file_name |-> "a.pdf", mime_type |-> "application/pdf",
                   file_size |-> 40],
     sticker |-> [file_id |-> "k", emoji |-> ":)"],
     location |-> [latitude |-> 1, longitude |-> 2],
     contact |-> [phone_number |-> "555", first_name |-> "Al", last_name |-> "",
                  user_id |-> 99]]

\* a Context: sender, chat and (optional) message of one update
Ctx(from, hasMessage, has, photo) ==
    [from |-> from, chat |-> [id |-> 7, type |-> "private"], hasMessage |-> hasMessage,
     message |-> Message(has, photo)]

DefaultSender == [present |-> TRUE, id |-> 42, username |-> "alice"]

\* the updates the native client delivers to handleMessage in the model
Updates ==
    {Ctx(DefaultSender, TRUE, has, <<Small, Big>>) : has \in FieldSets}
    \cup {Ctx(DefaultSender, FALSE, {}, <<>>), Ctx(NoFrom, FALSE, {}, <<>>)}
    \cup {Ctx(from, TRUE, {"text"}, <<>>) : from \in Senders \cup {NoFrom}}
    \cup {Ctx(from, TRUE, {"photo"}, photo) : from \in Senders, photo \in PhotoLists}

\* Date.now()
Now == 1000

\* file_path of telegram.getFile(fileId)
FilePath(fileId) == "files/" \o fileId \o ".bin"

\* getFileUrl that returns the bare file id
GetFileUrlBareId(b, cfg, fileId, getFileThrows) ==
    IF b = NULL
    THEN [url |-> "", requests |-> <<>>]
    ELSE [url |-> IF getFileThrows THEN "" ELSE fileId,
          requests |-> <<Request(b, "getFile", fileId)>>]

\* getFileUrl that returns a marker text when the lookup fails
GetFileUrlFailMarker(b, cfg, fileId, getFileThrows) ==
    IF b = NULL
    THEN [url |-> "", requests |-> <<>>]
    ELSE [url |-> IF getFileThrows THEN "unavailable"
                  ELSE "https://api.telegram.org/file/bot" \o cfg.botToken \o "/"
                           \o FilePath(fileId),
          requests |-> <<Request(b, "getFile", fileId)>>]

\* getFileUrl(fileId): "" without a bot or when getFile throws, else the
\* download URL built from the bot token and the file path
GetFileUrl(b, cfg, fileId, getFileThrows) ==
    IF b = NULL
    THEN [url |-> "", requests |-> <<>>]
    ELSE [url |-> IF getFileThrows THEN ""
                  ELSE "https://api.telegram.org/file/bot" \o cfg.botToken \o "/"
                           \o FilePath(fileId),
          requests |-> <<Request(b, "getFile", fileId)>>]

\* the base message whose id always comes from the clock
BaseMessageTimeId(ctx, type, content, attachments, extra) ==
    [id |-> "tg_" \o ToStr(Now),
     userId |-> IF ctx.from.present THEN ToStr(ctx.from.id) ELSE "",
     platform |-> "telegram",
     type |-> type,
     content |-> content,
     metadata |-> [chatId |-> ctx.chat.id, chatType |-> ctx.chat.type,
                   messageId |-> IF ctx.hasMessage THEN ctx.message.message_id ELSE NULL,
                   extra |-> extra],
     attachments |-> attachments,
     isFromBot |-> FALSE,
     processed |-> FALSE]

\* baseMessage of parseMessage, completed with the fields of the branch taken
BaseMessage(ctx, type, content, attachments, extra) ==
    [id |-> "tg_" \o (IF ctx.hasMessage THEN ToStr(ctx.message.message_id) ELSE ToStr(Now)),
     userId |-> IF ctx.from.present THEN ToStr(ctx.from.id) ELSE "",
     platform |-> "telegram",
     type |-> type,
     content |-> content,
     metadata |-> [chatId |-> ctx.chat.id, chatType |-> ctx.chat.type,
                   messageId |-> IF ctx.hasMessage THEN ctx.message.message_id ELSE NULL,
                   extra |-> extra],
     attachments |-> attachments,
     isFromBot |-> FALSE,
     processed |-> FALSE]

\* the branch selection with photo tested before text
BranchPhotoFirst(ctx) ==
    IF ~ctx.hasMessage THEN "fallback"
    ELSE IF "photo" \in ctx.message.has THEN "photo"
    ELSE IF "text" \in ctx.message.has THEN "text"
    ELSE IF "voice" \in ctx.message.has THEN "voice"
    ELSE IF "document" \in ctx.message.has THEN "document"
    ELSE IF "sticker" \in ctx.message.has THEN "sticker"
    ELSE IF "location" \in ctx.message.has THEN "location"
    ELSE IF "contact" \in ctx.message.has THEN "contact"
    ELSE "fallback"

\* the branch of parseMessage that returns: the chain of
\* `if (ctx.message && '<field>' in ctx.message)` tests, in source order
Branch(ctx) ==
    IF ~ctx.hasMessage THEN "fallback"
    ELSE IF "text" \in ctx.message.has THEN "text"
    ELSE IF "photo" \in ctx.message.has THEN "photo"
    ELSE IF "voice" \in ctx.message.has THEN "voice"
    ELSE IF "document" \in ctx.message.has THEN "document"
    ELSE IF "sticker" \in ctx.message.has THEN "sticker"
    ELSE IF "location" \in ctx.message.has THEN "location"
    ELSE IF "contact" \in ctx.message.has THEN "contact"
    ELSE "fallback"

\* the content of the default case, misspelt
FallbackContentOther == "Unsupported"

\* the content of the default case of parseMessage
FallbackContent == "Unsupported message type"

\* ctx.message.photo[ctx.message.photo.length - 1]
PickPhoto(photo) == photo[Len(photo)]

\* a result of parseMessage that is an exception / a Message
Thrown == [thrown |-> TRUE, message |-> [type |-> "none"], requests |-> <<>>]
Parsed(m, reqs) == [thrown |-> FALSE, message |-> m, requests |-> reqs]

\* one media attachment
AttachmentUntyped(id, type, url) == [id |-> id, type |-> "FILE", url |-> url]

Attachment(id, type, url) == [id |-> id, type |-> type, url |-> url]

\* the content of a location message with the coordinates swapped
LocationContentSwapped(location) ==
    "Location: " \o ToStr(location.longitude) \o ", " \o ToStr(location.latitude)

\* `Location: ${location.latitude}, ${location.longitude}`
LocationContent(location) ==
    "Location: " \o ToStr(location.latitude) \o ", " \o ToStr(location.longitude)

\* parseMessage(ctx)
ParseMessage(ctx, b, cfg, getFileThrows) ==
    LET br == Branch(ctx)
        m == ctx.message
    IN CASE br = "text" -> Parsed(BaseMessage(ctx, "TEXT", m.text, <<>>, <<>>), <<>>)
         [] br = "photo" ->
              IF m.photo = <<>>
              THEN Thrown     \* photo is undefined: photo.file_id raises a TypeError
              ELSE LET ph == PickPhoto(m.photo)
                       f == GetFileUrl(b, cfg, ph.file_id, getFileThrows)
                   IN Parsed(BaseMessage(ctx, "IMAGE", m.caption,
                                         <<Attachment(ph.file_id, "IMAGE", f.url)>>, <<>>),
                             f.requests)
         [] br = "voice" ->
              LET f == GetFileUrl(b, cfg, m.voice.file_id, getFileThrows)
              IN Parsed(BaseMessage(ctx, "AUDIO", "",
                                    <<Attachment(m.voice.file_id, "AUDIO", f.url)>>, <<>>),
                        f.requests)
         [] br = "document" ->
              LET f == GetFileUrl(b, cfg, m.document.file_id, getFileThrows)
              IN Parsed(BaseMessage(ctx, "DOCUMENT", m.caption,
                                    <<Attachment(m.document.file_id, "DOCUMENT", f.url)>>,
                                    <<>>),
                        f.requests)
         [] br = "sticker" ->
              LET f == GetFileUrl(b, cfg, m.sticker.file_id, getFileThrows)
              IN Parsed(BaseMessage(ctx, "STICKER", m.sticker.emoji,
                                    <<Attachment(m.sticker.file_id, "STICKER", f.url)>>,
                                    <<>>),
                        f.requests)
         [] br = "location" ->
              Parsed(BaseMessage(ctx, "LOCATION", LocationContent(m.location), <<>>,
                                 <<m.location.latitude, m.location.longitude>>), <<>>)
         [] br = "contact" ->
              Parsed(BaseMessage(ctx, "CONTACT",
                                 "Contact: " \o m.contact.first_name \o " "
                                     \o m.contact.last_name,
                                 <<>>,
                                 <<m.contact.phone_number, m.contact.first_name,
                                   m.contact.last_name, m.contact.user_id>>), <<>>)
         [] OTHER -> Parsed(BaseMessage(ctx, "TEXT", FallbackContent, <<>>, <<>>), <<>>)

\* a User record whose id is made of the username
UserOfNameId(u, platformId) ==
    [id |-> "tg_" \o u.username, platformId |-> platformId,
     platform |-> "telegram", username |-> u.username, role |-> "user",
     isBlocked |-> FALSE,
     preferences |-> [language |-> "en", timezone |-> "UTC", notifications |-> TRUE,
                      aiEnabled |-> TRUE, voiceEnabled |-> TRUE]]

\* the User record both user parsers build from a native user record
UserOf(u, platformId) ==
    [id |-> "tg_" \o (IF u.present THEN ToStr(u.id) ELSE ""), platformId |-> platformId,
     platform |-> "telegram", username |-> u.username, role |-> "user",
     isBlocked |-> FALSE,
     preferences |-> [language |-> "en", timezone |-> "UTC", notifications |-> TRUE,
                      aiEnabled |-> TRUE, voiceEnabled |-> TRUE]]

\* parseUser that takes the platformId from the username
ParseUserNameAsId(ctx) ==
    IF ~ctx.from.present
    THEN [thrown |-> TRUE, user |-> UserOf(NoFrom, "")]
    ELSE [thrown |-> FALSE, user |-> UserOf(ctx.from, ctx.from.username)]

\* parseUser(ctx): throws without ctx.from
ParseUser(ctx) ==
    IF ~ctx.from.present
    THEN [thrown |-> TRUE, user |-> UserOf(NoFrom, "")]
    ELSE [thrown |-> FALSE, user |-> UserOf(ctx.from, ToStr(ctx.from.id))]

\* the access check that looks at the native id only
AllowedIdOnly(cfg, user) ==
    \/ ~(cfg.allowedUsers.set /\ cfg.allowedUsers.users # {})
    \/ user.platformId \in cfg.allowedUsers.users

\* the access check of handleMessage: no (or an empty) allow-list, or the
\* list includes the platformId or the username
Allowed(cfg, user) ==
    \/ ~(cfg.allowedUsers.set /\ cfg.allowedUsers.users # {})
    \/ user.platformId \in cfg.allowedUsers.users
    \/ user.username \in cfg.allowedUsers.users

\* the payload of emit('message', ...)
MessageEvent(m, u) == [type |-> "message", message |-> m, user |-> u, platform |-> "telegram"]

\* the payload of emit('error', ...)
ErrorEvent(err, ctx) == [type |-> "error", error |-> err, context |-> ctx]

\* handleMessage that republishes a caught exception as an error event
HandleMessageResultEmitsError(ctx, c, b, cfg, getFileThrows, replyThrows) ==
    LET pm == ParseMessage(ctx, b, cfg, getFileThrows)
        pu == ParseUser(ctx)
    IN IF pm.thrown \/ pu.thrown
       THEN [emitted |-> <<ErrorEvent("TypeError", ctx)>>, requests |-> pm.requests]
       ELSE IF ~Allowed(cfg, pu.user)
       THEN [emitted |-> <<>>, requests |-> pm.requests]
       ELSE [emitted |-> <<MessageEvent(pm.message, pu.user)>>, requests |-> pm.requests]

\* handleMessage run once per payload field of the update
HandleMessageResultPerField(ctx, c, b, cfg, getFileThrows, replyThrows) ==
    LET pm == ParseMessage(ctx, b, cfg, getFileThrows)
        pu == ParseUser(ctx)
    IN IF pm.thrown \/ pu.thrown \/ ~Allowed(cfg, pu.user)
       THEN [emitted |-> <<>>, requests |-> pm.requests]
       ELSE [emitted |-> [k \in 1..Cardinality(ctx.message.has) |->
                             MessageEvent(pm.message, pu.user)],
             requests |-> pm.requests]

\* handleMessage(ctx) for an update delivered by native client c: the events
\* it emits and the requests it makes on a native client
HandleMessageResult(ctx, c, b, cfg, getFileThrows, replyThrows) ==
    LET pm == ParseMessage(ctx, b, cfg, getFileThrows)
        pu == ParseUser(ctx)
    IN IF pm.thrown \/ pu.thrown
       THEN [emitted |-> <<>>, requests |-> pm.requests]
       ELSE IF ~Allowed(cfg, pu.user)
       THEN IF LoggerHas("security")
            THEN [emitted |-> <<>>,
                  requests |-> Append(pm.requests, Request(c, "reply", ctx.chat.id))]
            \* logger.security(...) raises before ctx.reply; absorbed by the catch
            ELSE [emitted |-> <<>>, requests |-> pm.requests]
       ELSE [emitted |-> <<MessageEvent(pm.message, pu.user)>>, requests |-> pm.requests]

\* TRUE iff parseMessage calls getFileUrl for this update
NeedsFile(ctx) ==
    \/ Branch(ctx) \in {"voice", "document", "sticker"}
    \/ Branch(ctx) = "photo" /\ ctx.message.photo # <<>>

\* TRUE iff handleMessage calls ctx.reply for this update
Replies(ctx, cfg) ==
    /\ ~ParseMessage(ctx, NULL, cfg, FALSE).thrown
    /\ ~ParseUser(ctx).thrown
    /\ ~Allowed(cfg, ParseUser(ctx).user)
    /\ LoggerHas("security")

handleMessage ==
    /\ \E c \in 1..Len(native), ctx \in Updates :
         /\ native[c].active
         /\ native[c].handlers
         /\ \E getFileThrows \in (IF NeedsFile(ctx) THEN BOOLEAN ELSE {FALSE}),
               replyThrows \in (IF Replies(ctx, config) THEN BOOLEAN ELSE {FALSE}) :
              LET r == HandleMessageResult(ctx, c, bot, config, getFileThrows, replyThrows)
              IN last' = [op |-> "handleMessage", out |-> Ok, ctx |-> ctx, client |-> c,
                          fail |-> getFileThrows, fail2 |-> replyThrows,
                          parsed |-> ParseMessage(ctx, bot, config, getFileThrows),
                          emitted |-> r.emitted, requests |-> r.requests,
                          preBot |-> bot, preRunning |-> isRunning,
                          preNative |-> native]
    /\ UNCHANGED <<other, app, listeners, pending, config, bot, isRunning, native, sent>>

\* ------------------------------------------------------------- subscribers
\* the event names the consumers of the model subscribe to
EventNames == {"message", "error"}

\* the listeners of `type` among ls[i..], in registration order
RECURSIVE SubsFrom(_, _, _)
SubsFrom(ls, type, i) ==
    IF i > Len(ls) THEN <<>>
    ELSE (IF ls[i] = type THEN <<i>> ELSE <<>>) \o SubsFrom(ls, type, i + 1)

SubsOf(ls, type) == SubsFrom(ls, type, 1)

\* emit(type, payload) of EventEmitter: calls the listeners of `type` one
\* after the other in registration order, in the caller's stack; a listener
\* that throws (subscriber `bad`, 0 for none) ends the emit and the exception
\* leaves emit; emit('error') without a listener throws as well.
Emit(ls, type, bad) ==
    LET subs == SubsOf(ls, type)
        hit == {p \in 1..Len(subs) : subs[p] = bad}
    IN IF hit # {}
       THEN [delivered |-> SubSeq(subs, 1, CHOOSE p \in hit : TRUE), thrown |-> TRUE]
       ELSE [delivered |-> subs, thrown |-> type = "error" /\ subs = <<>>]

\* the deliveries of one call: for the k-th emitted event, the subscribers
\* that received it, in the order of the calls
RECURSIVE DeliveriesFrom(_, _, _, _)
DeliveriesFrom(ls, emitted, bad, k) ==
    IF k > Len(emitted) THEN <<>>
    ELSE LET to == Emit(ls, emitted[k].type, bad).delivered
         IN [p \in 1..Len(to) |-> [ev |-> k, to |-> to[p]]]
                \o DeliveriesFrom(ls, emitted, bad, k + 1)

Deliveries(ls, emitted, bad) == DeliveriesFrom(ls, emitted, bad, 1)

\* the events emitted by the call before this one
PrevEmitted == IF "emitted" \in DOMAIN last THEN last.emitted ELSE <<>>

\* on(name, listener) that hands the events of the previous call to the new
\* listener
OnResultReplay(ls, name, prevEmitted) ==
    [listeners |-> Append(ls, name),
     deliveries |-> LET ks == SubsOf([k \in 1..Len(prevEmitted) |-> prevEmitted[k].type],
                                     name)
                    IN [p \in 1..Len(ks) |-> [ev |-> ks[p], to |-> Len(ls) + 1]]]

\* on(name, listener): appends the listener; nothing is delivered to it
OnResult(ls, name, prevEmitted) ==
    [listeners |-> Append(ls, name), deliveries |-> <<>>]

\* the record of one call of the event part of the adapter; for on() and for
\* a handler that was suspended, prev is the call made just before
EventCall(op, ctx, bad, fail, emitted, deliveries, failed, hookThrown) ==
    [op |-> op, out |-> IF failed THEN NativeError ELSE Ok, ctx |-> ctx, bad |-> bad,
     fail |-> fail, emitted |-> emitted, deliveries |-> deliveries,
     hookThrown |-> hookThrown,
     prev |-> IF op \in {"on", "resumeMessage"} THEN last.op ELSE "",
     preListeners |-> listeners, prePending |-> pending, preBot |-> bot,
     preRunning |-> isRunning, preNative |-> native]

on ==
    /\ Len(listeners) < MaxListeners
    /\ \E name \in EventNames :
         LET r == OnResult(listeners, name, PrevEmitted)
         IN /\ listeners' = r.listeners
            /\ last' = EventCall("on", name, 0, FALSE, <<>>, r.deliveries, FALSE, FALSE)
    /\ UNCHANGED <<other, app, config, bot, isRunning, native, sent, pending>>

\* -------------------------------------------------------------- error hook
\* the bot.catch handler that only logs
ErrorHookResultLogOnly(err, ctx, ls, bad) == [emitted |-> <<>>, thrown |-> FALSE]

\* the bot.catch handler: logger.error(...), then emit('error', ...)
ErrorHookResult(err, ctx, ls, bad) ==
    IF ~LoggerHas("error")
    THEN [emitted |-> <<>>, thrown |-> TRUE]
    ELSE [emitted |-> <<ErrorEvent(err, ctx)>>, thrown |-> Emit(ls, "error", bad).thrown]

\* an update handler whose promise rejects makes the native client call the
\* error hook with the exception and the update's context
WithHook(r, ctx, ls, bad) ==
    IF r.failed
    THEN LET h == ErrorHookResult("TypeError", ctx, ls, bad)
         IN [emitted |-> r.emitted \o h.emitted, failed |-> TRUE, hookThrown |-> h.thrown]
    ELSE [emitted |-> r.emitted, failed |-> FALSE, hookThrown |-> FALSE]

\* the subscribers that may throw in one call that emits events of `types`:
\* none (0) or one of the listeners of these events
Throwers(types) == {0} \cup {i \in 1..Len(listeners) : listeners[i] \in types}

\* some native client of the adapter has the handlers and was launched, so
\* that it delivers updates and errors
Delivering == \E c \in 1..Len(native) : native[c].active /\ native[c].handlers

\* the updates of the model whose handling is followed step by step
EventUpdates == {Ctx(DefaultSender, TRUE, {"text"}, <<>>),
                 Ctx(DefaultSender, TRUE, {"photo"}, <<Small, Big>>)}

\* an error of the native client reaches the error hook
errorHook ==
    /\ Delivering
    /\ \E ctx \in EventUpdates, bad \in Throwers({"error"}) :
         LET h == ErrorHookResult("NativeError", ctx, listeners, bad)
         IN last' = EventCall("errorHook", ctx, bad, FALSE, h.emitted,
                              Deliveries(listeners, h.emitted, bad), FALSE, h.thrown)
    /\ UNCHANGED <<other, app, config, bot, isRunning, native, sent, listeners, pending>>

\* ------------------------------------------------------ membership updates
\* member records: two well-formed ones and one without an id
Member1 == [present |-> TRUE, id |-> 42, username |-> "alice"]
Member2 == [present |-> TRUE, id |-> 99, username |-> ""]
MemberNoId == [present |-> FALSE, id |-> 0, username |-> ""]
MemberLists == {<<Member1>>, <<Member1, Member2>>, <<MemberNoId>>,
                <<Member1, MemberNoId>>, <<MemberNoId, Member1>>}

\* a Context of a membership update; field is the member field its message
\* carries ("" for none)
MemberCtx(field, members) ==
    [from |-> DefaultSender, chat |-> [id |-> 7, type |-> "group"], field |-> field,
     members |-> members]

\* parseUserFromMember(member): member.id.toString() raises without an id
ParseUserFromMember(member) ==
    IF ~member.present
    THEN [thrown |-> TRUE, user |-> UserOf(MemberNoId, "")]
    ELSE [thrown |-> FALSE, user |-> UserOf(member, ToStr(member.id))]

\* the payload of emit('user_join' / 'user_leave', {user})
UserEvent(type, user) == [type |-> type, user |-> user]

\* the loop of handleUserJoin over the members not yet handled: per member
\* parseUserFromMember, emit('user_join'), logger.platform(...); the first
\* exception leaves the loop and rejects the handler's promise
RECURSIVE JoinLoop(_, _, _)
JoinLoop(members, ls, bad) ==
    IF members = <<>>
    THEN [emitted |-> <<>>, failed |-> FALSE]
    ELSE LET pu == ParseUserFromMember(Head(members))
         IN IF pu.thrown
            THEN [emitted |-> <<>>, failed |-> TRUE]
            ELSE IF Emit(ls, "user_join", bad).thrown \/ ~LoggerHas("platform")
            THEN [emitted |-> <<UserEvent("user_join", pu.user)>>, failed |-> TRUE]
            ELSE LET rest == JoinLoop(Tail(members), ls, bad)
                 IN [emitted |-> <<UserEvent("user_join", pu.user)>> \o rest.emitted,
                     failed |-> rest.failed]

\* handleUserJoin(ctx)
HandleUserJoinResult(ctx, ls, bad) ==
    IF ctx.field # "new_chat_members"
    THEN [emitted |-> <<>>, failed |-> FALSE]
    ELSE JoinLoop(ctx.members, ls, bad)

\* handleUserLeave(ctx)
HandleUserLeaveResult(ctx, ls, bad) ==
    IF ctx.field # "left_chat_member"
    THEN [emitted |-> <<>>, failed |-> FALSE]
    ELSE LET pu == ParseUserFromMember(ctx.members[1])
         IN IF pu.thrown
            THEN [emitted |-> <<>>, failed |-> TRUE]
            ELSE [emitted |-> <<UserEvent("user_leave", pu.user)>>,
                  failed |-> Emit(ls, "user_leave", bad).thrown \/ ~LoggerHas("platform")]

handleUserJoin ==
    /\ Delivering
    /\ \E bad \in Throwers({"user_join", "error"}),
          ctx \in {MemberCtx("new_chat_members", ms) : ms \in MemberLists}
                      \cup {MemberCtx("", <<>>)} :
         LET r == WithHook(HandleUserJoinResult(ctx, listeners, bad), ctx, listeners, bad)
         IN last' = EventCall("handleUserJoin", ctx, bad, FALSE, r.emitted,
                              Deliveries(listeners, r.emitted, bad), r.failed,
                              r.hookThrown)
    /\ UNCHANGED <<other, app, config, bot, isRunning, native, sent, listeners, pending>>

handleUserLeave ==
    /\ Delivering
    /\ \E bad \in Throwers({"user_leave", "error"}),
          ctx \in {MemberCtx("left_chat_member", <<m>>) : m \in {Member1, MemberNoId}}
                      \cup {MemberCtx("", <<>>)} :
         LET r == WithHook(HandleUserLeaveResult(ctx, listeners, bad), ctx, listeners, bad)
         IN last' = EventCall("handleUserLeave", ctx, bad, FALSE, r.emitted,
                              Deliveries(listeners, r.emitted, bad), r.failed,
                              r.hookThrown)
    /\ UNCHANGED <<other, app, config, bot, isRunning, native, sent, listeners, pending>>

\* ------------------------------------------- message handlers, step by step
\* the adapter object a handler works on
This == [bot |-> bot, config |-> config, isRunning |-> isRunning]

\* a dispatch that queues an update behind the handlers still suspended
DispatchResultSerialized(ctx, pend, this) ==
    IF (NeedsFile(ctx) /\ this.bot # NULL) \/ pend # <<>>
    THEN [suspended |-> TRUE, pending |-> Append(pend, ctx), emitted |-> <<>>]
    ELSE [suspended |-> FALSE, pending |-> pend,
          emitted |-> HandleMessageResult(ctx, this.bot, this.bot, this.config,
                                          FALSE, FALSE).emitted]

\* the native client calls handleMessage(ctx) without awaiting the handlers
\* it called before: the handler runs up to the await of telegram.getFile in
\* getFileUrl and is suspended there, or runs to its end when parseMessage
\* resolves no file
DispatchResult(ctx, pend, this) ==
    IF NeedsFile(ctx) /\ this.bot # NULL
    THEN [suspended |-> TRUE, pending |-> Append(pend, ctx), emitted |-> <<>>]
    ELSE [suspended |-> FALSE, pending |-> pend,
          emitted |-> HandleMessageResult(ctx, this.bot, this.bot, this.config,
                                          FALSE, FALSE).emitted]

dispatchMessage ==
    /\ Delivering
    /\ \E ctx \in EventUpdates :
         LET r == DispatchResult(ctx, pending, This)
         IN /\ Len(r.pending) <= MaxPending
            /\ pending' = r.pending
            /\ \E bad \in (IF r.suspended THEN {0} ELSE Throwers({"message"})) :
                 last' = EventCall("dispatchMessage", ctx, bad, FALSE, r.emitted,
                                   Deliveries(listeners, r.emitted, bad), FALSE, FALSE)
    /\ UNCHANGED <<other, app, config, bot, isRunning, native, sent, listeners>>

\* pend without its k-th entry
Without(pend, k) == SubSeq(pend, 1, k - 1) \o SubSeq(pend, k + 1, Len(pend))

\* a continuation that publishes only while the adapter is running
ResumeResultWhileRunning(pend, k, this, getFileThrows) ==
    [pending |-> Without(pend, k),
     emitted |-> IF this.isRunning
                 THEN HandleMessageResult(pend[k], this.bot, this.bot, this.config,
                                          getFileThrows, FALSE).emitted
                 ELSE <<>>]

\* telegram.getFile settles for the k-th suspended handler: the rest of
\* handleMessage runs (parseMessage ends, parseUser, access check, emit)
ResumeResult(pend, k, this, getFileThrows) ==
    [pending |-> Without(pend, k),
     emitted |-> HandleMessageResult(pend[k], this.bot, this.bot, this.config,
                                     getFileThrows, FALSE).emitted]

resumeMessage ==
    /\ \E k \in 1..Len(pending), getFileThrows \in BOOLEAN,
          bad \in Throwers({"message"}) :
         LET r == ResumeResult(pending, k, This, getFileThrows)
         IN /\ pending' = r.pending
            /\ last' = EventCall("resumeMessage", pending[k], bad, getFileThrows,
                                 r.emitted, Deliveries(listeners, r.emitted, bad),
                                 FALSE, FALSE)
    /\ UNCHANGED <<other, app, config, bot, isRunning, native, sent, listeners>>

\* ------------------------------------------------------------ entry point
\* process.env as far as the configuration reads it.  "unset" stands for an
\* undefined variable, "" for an absent credential.
EnabledValues == {"unset", "true", "True", "1", "0"}
PlatformNames == {"telegram", "whatsapp", "discord", "facebook"}
PlatformEnvs ==
    {[enabled |-> e, credential |-> k] : e \in EnabledValues, k \in {"", "x"}}
OtherPlatformEnvs ==
    {[enabled |-> "unset", credential |-> ""], [enabled |-> "true", credential |-> "x"],
     [enabled |-> "true", credential |-> ""]}
\* NODE_ENV with the secrets the production checks look at
NodeEnvs == {[production |-> FALSE, jwtSecret |-> FALSE],
             [production |-> TRUE, jwtSecret |-> TRUE],
             [production |-> TRUE, jwtSecret |-> FALSE]}
Envs ==
    {[platforms |-> p, openai |-> o, databaseUrl |-> d, node |-> n, dashboard |-> w] :
        p \in {f \in [PlatformNames -> PlatformEnvs \cup OtherPlatformEnvs] :
                  \A name \in PlatformNames \ {"telegram"} : f[name] \in OtherPlatformEnvs},
        o \in {[enabled |-> "unset", credential |-> "x"],
               [enabled |-> "unset", credential |-> ""],
               [enabled |-> "0", credential |-> ""]},
        d \in {"", "postgres://db"},
        n \in NodeEnvs,
        w \in BOOLEAN}

\* String.prototype.toLowerCase on the values used
ToLowerCase(s) == IF s = "True" THEN "true" ELSE s

\* getBoolean(key, defaultValue)
GetBoolean(value, defaultValue) ==
    IF value = "unset" THEN defaultValue
    ELSE ToLowerCase(value) = "true" \/ value = "1"

\* a validation that only counts the enabled platforms
ValidateConfigurationCountOnly(env) ==
    LET enabled(name) == GetBoolean(env.platforms[name].enabled, FALSE)
    IN IF \A name \in PlatformNames : ~enabled(name)
       THEN "At least one platform must be enabled"
       ELSE ""

\* validateConfiguration(): the message of the ConfigurationError it throws,
\* "" when it returns.  The environments of the model leave CLAUDE_ENABLED
\* unset and, in production, set every secret but possibly JWT_SECRET.
ValidateConfiguration(env) ==
    LET enabled(name) == GetBoolean(env.platforms[name].enabled, FALSE)
        lacks(name) == enabled(name) /\ env.platforms[name].credential = ""
    IN IF \A name \in PlatformNames : ~enabled(name)
       THEN "At least one platform must be enabled"
       ELSE IF lacks("telegram")
       THEN "Telegram bot token is required when Telegram is enabled"
       ELSE IF lacks("whatsapp")
       THEN "WhatsApp API token is required when WhatsApp is enabled"
       ELSE IF lacks("discord")
       THEN "Discord bot token is required when Discord is enabled"
       ELSE IF lacks("facebook")
       THEN "Facebook page token is required when Facebook is enabled"
       ELSE IF GetBoolean(env.openai.enabled, TRUE) /\ env.openai.credential = ""
       THEN "OpenAI API key is required when OpenAI is enabled"
       ELSE IF env.databaseUrl = ""
       THEN "Database URL is required"
       ELSE IF env.node.production /\ ~env.node.jwtSecret
       THEN "JWT_SECRET must be set in production"
       ELSE ""

\* isValid(): catches the ConfigurationError and answers false
IsValid(env) == ValidateConfiguration(env) = ""

\* the process before bootstrap() runs
AppBoot(env) ==
    [env |-> env, phase |-> "boot", valid |-> FALSE, dbConnects |-> 0, dbConnected |-> FALSE,
     botCreated |-> FALSE, botStarts |-> 0, webServer |-> FALSE, handlers |-> FALSE,
     runs |-> <<>>, trace |-> <<>>, exited |-> FALSE, code |-> 0, by |-> ""]

\* the adapter on its own, without an entry point
AppOff == [AppBoot(CHOOSE env \in Envs : IsValid(env)) EXCEPT !.phase = "off"]

\* process.exit(code)
Exit(a, code, by) == [a EXCEPT !.exited = TRUE, !.code = code, !.by = by]

\* bootstrap() up to its first await: isValid(), then Database.connect()
bootstrap ==
    /\ app.phase = "boot"
    /\ ~app.exited
    /\ app' = IF ~IsValid(app.env)
              THEN Exit([app EXCEPT !.phase = "failed"], 1, "bootstrap")
              ELSE [app EXCEPT !.phase = "connecting", !.valid = TRUE, !.dbConnects = @ + 1]
    /\ UNCHANGED <<vars_adapter, other>>

\* Database.connect() settles: new EnhancedBot(config), bot.initialize()
connected ==
    /\ app.phase = "connecting"
    /\ ~app.exited
    /\ \E throws \in BOOLEAN :
         app' = IF throws
                THEN Exit([app EXCEPT !.phase = "failed"], 1, "bootstrap")
                ELSE [app EXCEPT !.phase = "initializing", !.dbConnected = TRUE,
                                 !.botCreated = TRUE]
    /\ UNCHANGED <<vars_adapter, other>>

\* bot.initialize() settles: the web server is started when the dashboard is
\* enabled, else the process handlers are registered and bot.start() is called
initialized ==
    /\ app.phase = "initializing"
    /\ ~app.exited
    /\ \E throws \in BOOLEAN :
         app' = IF throws
                THEN Exit([app EXCEPT !.phase = "failed"], 1, "bootstrap")
                ELSE IF app.env.dashboard
                THEN [app EXCEPT !.phase = "web"]
                ELSE [app EXCEPT !.phase = "starting", !.handlers = TRUE,
                                 !.botStarts = @ + 1]
    /\ UNCHANGED <<vars_adapter, other>>

\* webServer.start() settles: registerProcessHandlers(bot), bot.start()
webStarted ==
    /\ app.phase = "web"
    /\ ~app.exited
    /\ \E throws \in BOOLEAN :
         app' = IF throws
                THEN Exit([app EXCEPT !.phase = "failed"], 1, "bootstrap")
                ELSE [app EXCEPT !.phase = "starting", !.webServer = TRUE,
                                 !.handlers = TRUE, !.botStarts = @ + 1]
    /\ UNCHANGED <<vars_adapter, other>>

\* bot.start() settles
started ==
    /\ app.phase = "starting"
    /\ ~app.exited
    /\ \E throws \in BOOLEAN :
         app' = IF throws
                THEN Exit([app EXCEPT !.phase = "failed"], 1, "bootstrap")
                ELSE [app EXCEPT !.phase = "started"]
    /\ UNCHANGED <<vars_adapter, other>>

\* one run of gracefulShutdown: what became of its bot.stop() and of its
\* Database.disconnect()
NewRun == [stop |-> "pending", disconnect |-> "none"]

\* SIGTERM, SIGINT or SIGUSR2 arrives: gracefulShutdown runs up to the await
\* of bot.stop()
signal ==
    /\ app.handlers
    /\ ~app.exited
    /\ Len(app.runs) < MaxSignals
    /\ app' = [app EXCEPT !.runs = Append(@, NewRun), !.trace = Append(@, "stop called")]
    /\ UNCHANGED <<vars_adapter, other>>

\* a shutdown that disconnects the database also after a failed bot.stop()
StopSettlesResultAlwaysDisconnect(a, r, throws) ==
    [a EXCEPT !.runs[r] = [stop |-> IF throws THEN "failed" ELSE "ok",
                           disconnect |-> "pending"],
              !.trace = @ \o <<IF throws THEN "stop failed" ELSE "stop ok",
                               "disconnect called">>]

\* bot.stop() of run r settles: Database.disconnect() is called, or the
\* catch block exits with status 1
StopSettlesResult(a, r, throws) ==
    IF throws
    THEN Exit([a EXCEPT !.runs[r] = [stop |-> "failed", disconnect |-> "none"],
                        !.trace = Append(@, "stop failed")], 1, "shutdown")
    ELSE [a EXCEPT !.runs[r] = [stop |-> "ok", disconnect |-> "pending"],
                   !.trace = @ \o <<"stop ok", "disconnect called">>]

stopSettles ==
    /\ ~app.exited
    /\ \E r \in 1..Len(app.runs), throws \in BOOLEAN :
         /\ app.runs[r].stop = "pending"
         /\ app' = StopSettlesResult(app, r, throws)
    /\ UNCHANGED <<vars_adapter, other>>

\* Database.disconnect() of run r settles: exit with status 0, or the catch
\* block exits with status 1
DisconnectSettlesResult(a, r, throws) ==
    IF throws
    THEN Exit([a EXCEPT !.runs[r].disconnect = "failed",
                        !.trace = Append(@, "disconnect failed")], 1, "shutdown")
    ELSE Exit([a EXCEPT !.runs[r].disconnect = "ok", !.dbConnected = FALSE,
                        !.trace = Append(@, "disconnect ok")], 0, "shutdown")

disconnectSettles ==
    /\ ~app.exited
    /\ \E r \in 1..Len(app.runs), throws \in BOOLEAN :
         /\ app.runs[r].disconnect = "pending"
         /\ app' = DisconnectSettlesResult(app, r, throws)
    /\ UNCHANGED <<vars_adapter, other>>

\* --------------------------------------------------- a second adapter
\* new TelegramPlatform(cfg): the fields of a freshly constructed adapter,
\* with its own EventEmitter state and the Telegraf objects it constructs
NewAdapter(cfg) ==
    [config |-> cfg, bot |-> NULL, isRunning |-> FALSE, native |-> <<>>,
     listeners |-> <<>>]

\* a field that all instances of the class share: it holds what any of them
\* assigned last
BystanderStatic(own, assigned) == assigned

\* the value of a field of this adapter after the other adapter assigned
\* the field of the same name: bot, isRunning and the listeners are
\* instance fields
Bystander(own, assigned) == own

\* the record of one call made on the second adapter
OtherCall(op, out, fail, ctx, emitted) ==
    [op |-> op, out |-> out, fail |-> fail, ctx |-> ctx, emitted |-> emitted]

\* the updates delivered to the second adapter: a sender on its allow-list,
\* with and without a file to resolve, and a sender on the first adapter's
TwoUpdates ==
    EventUpdates
    \cup {Ctx([present |-> TRUE, id |-> 99, username |-> ""], TRUE, {"text"}, <<>>)}

\* initialize() on the second adapter
otherInitialize ==
    /\ Len(other.native) < MaxOtherClients
    /\ \E ctorThrows \in BOOLEAN :
         LET r == InitializeResult(other.config, other.bot, other.native, ctorThrows)
         IN /\ other' = [other EXCEPT !.bot = r.bot, !.native = r.native]
            /\ bot' = Bystander(bot, r.bot)
            /\ last' = OtherCall("other.initialize", r.out, ctorThrows, NULL, <<>>)
    /\ UNCHANGED <<app, config, isRunning, native, sent, listeners, pending>>

\* start() on the second adapter
otherStart ==
    /\ other.bot # NULL => other.native[other.bot].launches < MaxOtherLaunches
    /\ \E launchThrows \in BOOLEAN :
         LET r == StartResult(other.config, other.bot, other.isRunning, other.native,
                              launchThrows, FALSE)
         IN /\ other' = [other EXCEPT !.isRunning = r.isRunning, !.native = r.native]
            /\ isRunning' = Bystander(isRunning, r.isRunning)
            /\ last' = OtherCall("other.start", r.out, launchThrows, NULL, <<>>)
    /\ UNCHANGED <<app, config, bot, native, sent, listeners, pending>>

\* stop() on the second adapter
otherStop ==
    /\ \E stopThrows \in BOOLEAN :
         LET r == StopResult(other.bot, other.isRunning, other.native, stopThrows)
         IN /\ other' = [other EXCEPT !.isRunning = r.isRunning, !.native = r.native]
            /\ isRunning' = Bystander(isRunning, r.isRunning)
            /\ last' = OtherCall("other.stop", r.out, stopThrows, NULL, <<>>)
    /\ UNCHANGED <<app, config, bot, native, sent, listeners, pending>>

\* on(name, listener) on the second adapter
otherOn ==
    /\ Len(other.listeners) < MaxOtherListeners
    /\ \E name \in EventNames :
         LET r == OnResult(other.listeners, name, <<>>)
         IN /\ other' = [other EXCEPT !.listeners = r.listeners]
            /\ listeners' = Bystander(listeners, r.listeners)
            /\ last' = OtherCall("other.on", Ok, FALSE, NULL, <<>>)
    /\ UNCHANGED <<app, config, bot, isRunning, native, sent, pending>>

\* a native client of the second adapter delivers a message update
otherHandleMessage ==
    /\ \E c \in 1..Len(other.native) : other.native[c].active /\ other.native[c].handlers
    /\ \E ctx \in TwoUpdates :
         \E getFileThrows \in (IF NeedsFile(ctx) THEN BOOLEAN ELSE {FALSE}) :
            LET r == HandleMessageResult(ctx, other.bot, other.bot, other.config,
                                         getFileThrows, FALSE)
            IN last' = OtherCall("other.handleMessage", Ok, getFileThrows, ctx, r.emitted)
    /\ UNCHANGED <<app, other, config, bot, isRunning, native, sent, listeners, pending>>

\* isActive()
isActive == isRunning

Init ==
    /\ config \in [enabled : BOOLEAN, botToken : Tokens, webhookUrl : WebhookUrls,
                   allowedUsers : AllowLists]
    /\ bot = NULL
    /\ isRunning = FALSE
    /\ native = <<>>
    /\ sent = <<>>
    /\ listeners = <<>>
    /\ pending = <<>>
    /\ app = AppOff
    /\ other = NewAdapter(config)
    /\ last = [op |-> "none", out |-> Ok, fail |-> FALSE, fail2 |-> FALSE,
               preBot |-> NULL, preRunning |-> FALSE, preNative |-> <<>>,
               preSent |-> <<>>]

Next == Initialize \/ Start \/ Stop \/ sendMessage \/ sendPhoto \/ sendTyping

Spec == Init /\ [][Next]_vars

\* the adapter with its lifecycle calls and the updates its native clients
\* deliver
NextInbound == Initialize \/ Start \/ Stop \/ handleMessage

SpecInbound == Init /\ [][NextInbound]_vars

\* the adapter with its subscribers and with the update handlers of its
\* native clients followed step by step, for one valid configuration
InitEvents ==
    /\ Init
    /\ config = [enabled |-> TRUE, botToken |-> "T", webhookUrl |-> "",
                 allowedUsers |-> [set |-> FALSE, users |-> {}]]

NextEvents ==
    \/ Initialize \/ Start \/ Stop \/ on \/ errorHook
    \/ handleUserJoin \/ handleUserLeave \/ dispatchMessage \/ resumeMessage

SpecEvents == InitEvents /\ [][NextEvents]_vars

\* the adapter with its subscribers, the error hook and the membership
\* updates only
NextSubscribers ==
    \/ Initialize \/ Start \/ Stop \/ on \/ errorHook
    \/ handleUserJoin \/ handleUserLeave

SpecSubscribers == InitEvents /\ [][NextSubscribers]_vars

\* the adapter with the message handlers of its native clients only
NextHandlers == Initialize \/ Start \/ Stop \/ dispatchMessage \/ resumeMessage

SpecHandlers == InitEvents /\ [][NextHandlers]_vars

\* the process from its start to its exit, for every environment of Envs
InitApp ==
    /\ config = [enabled |-> TRUE, botToken |-> "T", webhookUrl |-> "",
                 allowedUsers |-> [set |-> FALSE, users |-> {}]]
    /\ bot = NULL
    /\ isRunning = FALSE
    /\ native = <<>>
    /\ sent = <<>>
    /\ listeners = <<>>
    /\ pending = <<>>
    /\ last = [op |-> "none", out |-> Ok, fail |-> FALSE, fail2 |-> FALSE,
               preBot |-> NULL, preRunning |-> FALSE, preNative |-> <<>>,
               preSent |-> <<>>]
    /\ app \in {AppBoot(env) : env \in Envs}
    /\ other = NewAdapter(config)

NextApp ==
    \/ bootstrap \/ connected \/ initialized \/ webStarted \/ started
    \/ signal \/ stopSettles \/ disconnectSettles

SpecApp == InitApp /\ [][NextApp]_vars

\* two adapters constructed with different allow-lists, each with its own
\* calls, subscribers and updates
InitTwo ==
    /\ config = [enabled |-> TRUE, botToken |-> "T", webhookUrl |-> "",
                 allowedUsers |-> [set |-> TRUE, users |-> {"99"}]]
    /\ bot = NULL
    /\ isRunning = FALSE
    /\ native = <<>>
    /\ sent = <<>>
    /\ listeners = <<>>
    /\ pending = <<>>
    /\ app = AppOff
    /\ other = NewAdapter([enabled |-> TRUE, botToken |-> "T", webhookUrl |-> "",
                           allowedUsers |-> [set |-> TRUE, users |-> {"alice"}]])
    /\ last = [op |-> "none", out |-> Ok, fail |-> FALSE, fail2 |-> FALSE,
               preBot |-> NULL, preRunning |-> FALSE, preNative |-> <<>>,
               preSent |-> <<>>]

NextTwo ==
    \/ (Len(native) < MaxOtherClients /\ Initialize)
    \/ ((bot # NULL => native[bot].launches < MaxOtherLaunches) /\ Start)
    \/ Stop
    \/ (Len(listeners) < MaxOtherListeners /\ on)
    \/ otherInitialize \/ otherStart \/ otherStop \/ otherOn \/ otherHandleMessage

SpecTwo == InitTwo /\ [][NextTwo]_vars

\* ================================================================== claims
\* the native client the adapter held when the last call was made was
\* listening or polling
PreActive == last.preBot # NULL /\ last.preNative[last.preBot].active

\* C1: when the platform is enabled, a bot token is configured and the
\* construction of the native client does not throw, initialize() returns
\* without error and the adapter holds a native client.
C1_InitializeSucceeds ==
    (last.op = "initialize" /\ config.enabled /\ config.botToken # "" /\ ~last.fail)
        => (last.out.kind = "ok" /\ bot # NULL)

\* C2: initialize() fails with a PlatformError tagged with the Telegram
\* platform whenever enabled is false or no bot token is configured, and no
\* native client is created by that call.
C2_MissingConfigFails ==
    (last.op = "initialize" /\ (~config.enabled \/ config.botToken = ""))
        => /\ last.out.kind = "PlatformError"
           /\ last.out.platform = "telegram"
           /\ native = <<>>
           /\ bot = NULL

C2_Witness ==
    /\ last.op = "initialize"
    /\ ~config.enabled
    /\ config.botToken = "T"
    /\ last.out.kind = "PlatformError"
    /\ native = <<>>

\* C3: every failing initialize() leaves an Uninitialized adapter
\* Uninitialized (this.bot stays null, so that start, sendMessage and
\* sendPhoto still fail with 'Bot not initialized').
C3_FailedInitializeStaysUninitialized ==
    (last.op = "initialize" /\ last.out.kind # "ok" /\ last.preBot = NULL)
        => bot = NULL

\* C4: start() is accepted only in state Initialized: on an adapter without
\* a native client, or whose native client is already launched, or was
\* stopped, it fails with PlatformError, launches nothing and changes no state.
C4_StartOnlyWhenInitialized ==
    (last.op = "start" /\ (\/ last.preBot = NULL
                           \/ last.preRunning
                           \/ last.preNative[last.preBot].launches > 0
                           \/ last.preNative[last.preBot].stops > 0))
        => /\ last.out.kind = "PlatformError"
           /\ native = last.preNative
           /\ isRunning = last.preRunning

C6_CommandFailureNonFatal ==
    (last.op = "start" /\ last.preBot # NULL /\ ~last.fail /\ last.fail2)
        => (last.out.kind = "ok" /\ isActive)

\* C7: if launching the native client fails, start() fails with a
\* PlatformError and isActive() stays false.
C7_LaunchFailurePropagates ==
    (last.op = "start" /\ last.preBot # NULL /\ ~last.preRunning /\ last.fail)
        => /\ last.out.kind = "PlatformError"
           /\ last.out.platform = "telegram"
           /\ ~isActive

C7_Witness ==
    /\ last.op = "start"
    /\ last.preBot # NULL
    /\ last.fail
    /\ last.out = PlatformError("Failed to start Telegram bot")
    /\ ~isActive
    /\ native = last.preNative

\* C8: stop() is a no-op unless the adapter was started: without a launched
\* native client it calls no native stop and changes no state; on a started
\* adapter the first stop() stops the native client exactly once (and so a
\* second, consecutive stop() finds it stopped and is a no-op).
C8_StopIdempotent ==
    last.op = "stop" =>
        IF PreActive
        THEN /\ native[bot].stops = last.preNative[bot].stops + 1
             /\ ~native[bot].active
        ELSE native = last.preNative /\ isRunning = last.preRunning

\* C9: whenever stop() returns after being called on a started adapter,
\* isActive() is false and the native client's polling / listening has been
\* released, also when the native stop call raises.
C9_StopReleases ==
    (last.op = "stop" /\ (last.preRunning \/ PreActive))
        => (~isActive /\ ~native[bot].active)

\* C10 as stated: before the adapter holds a native client, sendMessage,
\* sendPhoto and sendTyping all fail with PlatformError and make no native
\* request.
C10_OutboundBeforeInitializeFails ==
    (last.op \in {"sendMessage", "sendPhoto", "sendTyping"} /\ last.preBot = NULL)
        => (last.out.kind = "PlatformError" /\ sent = last.preSent)

\* C10 amended: before the adapter holds a native client, sendMessage and
\* sendPhoto fail with PlatformError 'Bot not initialized', sendTyping
\* returns normally, and none of the three makes a native request.
C10_OutboundBeforeInitialize ==
    /\ (last.op \in {"sendMessage", "sendPhoto"} /\ last.preBot = NULL)
          => (last.out = PlatformError("Bot not initialized") /\ sent = last.preSent)
    /\ (last.op = "sendTyping" /\ last.preBot = NULL)
          => (last.out.kind = "ok" /\ sent = last.preSent)

C10_Witness ==
    /\ last.op = "sendTyping"
    /\ last.preBot = NULL
    /\ bot = NULL
    /\ last.out.kind = "ok"
    /\ sent = <<>>

\* C11 as stated: sendMessage and sendPhoto require the Running state: on an
\* adapter that holds a native client but is not Running (not started, or
\* after stop()) they fail with PlatformError and forward nothing.
C11_SendRequiresRunning ==
    (last.op \in {"sendMessage", "sendPhoto"} /\ last.preBot # NULL /\ ~last.preRunning)
        => (last.out.kind = "PlatformError" /\ sent = last.preSent)

\* C11 amended: sendMessage and sendPhoto require only that the adapter holds
\* a native client: on an adapter that is not Running (not started, or after
\* stop()) they forward exactly one request of their kind to that client and
\* fail only when the native send fails.
C11_SendRequiresClientOnly ==
    (last.op \in {"sendMessage", "sendPhoto"} /\ last.preBot # NULL /\ ~last.preRunning)
        => /\ Len(sent) = Len(last.preSent) + 1
           /\ SubSeq(sent, 1, Len(last.preSent)) = last.preSent
           /\ sent[Len(sent)].client = last.preBot
           /\ sent[Len(sent)].method = last.op
           /\ last.out.kind # "PlatformError"
           /\ last.out.kind = "ok" <=> ~last.fail

C11_Witness ==
    /\ last.op = "sendPhoto"
    /\ last.preBot # NULL
    /\ ~last.preRunning
    /\ ~native[bot].active
    /\ last.out.kind = "ok"
    /\ Len(sent) = Len(last.preSent) + 1

\* C12: when the native send fails, sendMessage and sendPhoto fail towards
\* their caller with the native client's own error, after exactly one native
\* attempt, and the lifecycle state (bot, isRunning, native client) is
\* unchanged.
C12_SendErrorPropagates ==
    (last.op \in {"sendMessage", "sendPhoto"} /\ last.preBot # NULL /\ last.fail)
        => /\ last.out = NativeError
           /\ Len(sent) = Len(last.preSent) + 1
           /\ bot = last.preBot
           /\ isRunning = last.preRunning
           /\ native = last.preNative

C12_Witness ==
    /\ last.op = "sendMessage"
    /\ last.preBot # NULL
    /\ last.fail
    /\ last.out = NativeError
    /\ sent[Len(sent)].method = "sendMessage"

\* C13: sendTyping never propagates a native failure: when the native
\* typing-indicator call fails, sendTyping still completes normally.
C13_TypingNeverThrows ==
    last.op = "sendTyping" => last.out.kind = "ok"

C13_Witness ==
    /\ last.op = "sendTyping"
    /\ last.preBot # NULL
    /\ last.fail
    /\ last.out.kind = "ok"
    /\ Len(sent) = Len(last.preSent) + 1
    /\ sent[Len(sent)].method = "sendChatAction"

\* ------------------------------------------------- claims on inbound updates
\* the last call was handleMessage and parseMessage returned a Message
Handled == last.op = "handleMessage"
ParsedOk == Handled /\ ~last.parsed.thrown

\* the decimal string of a sender's native id
IdString(id) == IF id = 42 THEN "42" ELSE IF id = 99 THEN "99" ELSE "?"

\* the first payload field, in the precedence text, photo, voice, document,
\* sticker, location, contact, that the message carries
FirstKind(has) ==
    Kinds[CHOOSE i \in 1..7 : Kinds[i] \in has /\ \A j \in 1..(i - 1) : Kinds[j] \notin has]

TypeOfKind(k) ==
    CASE k = "text" -> "TEXT" [] k = "photo" -> "IMAGE" [] k = "voice" -> "AUDIO"
      [] k = "document" -> "DOCUMENT" [] k = "sticker" -> "STICKER"
      [] k = "location" -> "LOCATION" [] k = "contact" -> "CONTACT"

\* the sender of the last update passes the access control of the claims: no
\* allow-list, an empty one, or one that holds its id string or its username
SenderListed ==
    \/ ~config.allowedUsers.set
    \/ config.allowedUsers.users = {}
    \/ IdString(last.ctx.from.id) \in config.allowedUsers.users
    \/ (last.ctx.from.username # "" /\ last.ctx.from.username \in config.allowedUsers.users)

\* the number of requests of a method among the requests of the last update
CountRequests(method) ==
    Cardinality({i \in 1..Len(last.requests) : last.requests[i].method = method})

\* C14: file-URL resolution never throws: when the native lookup fails the
\* attachment URL is the empty string, otherwise it is the download URL made
\* of the bot token and the file path the native client returned, never the
\* bare file id.
C14_FileUrlNeverThrows ==
    (Handled /\ NeedsFile(last.ctx))
        => /\ ~last.parsed.thrown
           /\ Len(last.parsed.message.attachments) = 1
           /\ LET a == last.parsed.message.attachments[1]
              IN /\ last.fail => a.url = ""
                 /\ ~last.fail =>
                       /\ a.url = "https://api.telegram.org/file/bot" \o config.botToken
                                      \o "/" \o FilePath(a.id)
                       /\ a.url # a.id
           /\ CountRequests("getFile") = 1

C14_Witness ==
    /\ Handled
    /\ last.ctx.message.has = {"voice"}
    /\ last.fail
    /\ ~last.parsed.thrown
    /\ last.parsed.message.attachments[1].url = ""

\* C15: message normalization dispatches on the first payload field present
\* in the precedence text, photo, voice, document, sticker, location, contact,
\* else the fallback; that one branch determines the Message type, also when
\* the update carries several payload fields.
C15_DispatchPrecedence ==
    Handled =>
        IF last.ctx.hasMessage /\ last.ctx.message.has # {}
        THEN IF last.parsed.thrown
             THEN FirstKind(last.ctx.message.has) = "photo"
             ELSE last.parsed.message.type = TypeOfKind(FirstKind(last.ctx.message.has))
        ELSE ~last.parsed.thrown /\ last.parsed.message.type = "TEXT"

C15_Witness ==
    /\ ParsedOk
    /\ last.ctx.message.has = {"text", "photo"}
    /\ last.parsed.message.type = "TEXT"
    /\ last.parsed.message.attachments = <<>>

\* C16: for every text update from a sender who passes access control,
\* exactly one message event is published; its Message has type TEXT and
\* content equal to the raw text, and its User has platformId equal to the
\* string form of the sender's native id.
C16_TextUpdatePublished ==
    (Handled /\ last.ctx.hasMessage /\ "text" \in last.ctx.message.has
        /\ last.ctx.from.present /\ SenderListed)
        => /\ Len(last.emitted) = 1
           /\ last.emitted[1].type = "message"
           /\ last.emitted[1].message.type = "TEXT"
           /\ last.emitted[1].message.content = last.ctx.message.text
           /\ last.emitted[1].user.platformId = IdString(last.ctx.from.id)

C16_Witness ==
    /\ Handled
    /\ last.ctx.message.has = {"text"}
    /\ last.ctx.from.id = 42
    /\ ~config.allowedUsers.set
    /\ Len(last.emitted) = 1
    /\ last.emitted[1].message.content = "hi"
    /\ last.emitted[1].user.platformId = "42"

\* C17: for every image update, in whatever order its resolution variants
\* are listed, the attachment of the produced Message refers to the variant
\* with the highest resolution.
C17_HighestResolution ==
    (ParsedOk /\ last.parsed.message.type = "IMAGE")
        => \E i \in 1..Len(last.ctx.message.photo) :
              /\ last.ctx.message.photo[i].file_id = last.parsed.message.attachments[1].id
              /\ \A j \in 1..Len(last.ctx.message.photo) :
                    last.ctx.message.photo[j].width <= last.ctx.message.photo[i].width

\* C18: for every update that matches no known content kind (including one
\* with no message object at all), message normalization does not throw and
\* yields a TEXT Message with content 'Unsupported message type'.
C18_FallbackMessage ==
    (Handled /\ (~last.ctx.hasMessage \/ last.ctx.message.has = {}))
        => /\ ~last.parsed.thrown
           /\ last.parsed.message.type = "TEXT"
           /\ last.parsed.message.content = "Unsupported message type"
           /\ last.parsed.message.attachments = <<>>

C18_Witness ==
    /\ Handled
    /\ ~last.ctx.hasMessage
    /\ ~last.ctx.from.present
    /\ ~last.parsed.thrown
    /\ last.parsed.message.content = "Unsupported message type"

\* C19: with a non-empty allow-list, every update from a sender whose native
\* id and username are both absent from the list publishes no message event
\* and causes exactly one refusal reply, sent to the chat of that update.
C19_RejectedSenderGetsOneRefusal ==
    (ParsedOk /\ last.ctx.from.present /\ ~SenderListed)
        => /\ last.emitted = <<>>
           /\ CountRequests("reply") = 1
           /\ \A i \in 1..Len(last.requests) :
                 last.requests[i].method = "reply" => last.requests[i].chat = last.ctx.chat.id

\* C20: a sender is accepted, and its update published as one message event
\* with no refusal reply, exactly when no allow-list is configured, the
\* allow-list is empty, or it contains the sender's native id (as a string)
\* or the sender's username.
C20_AcceptedExactlyWhenListed ==
    (ParsedOk /\ last.ctx.from.present)
        => ((/\ Len(last.emitted) = 1
             /\ last.emitted[1].type = "message"
             /\ last.emitted[1].user.username = last.ctx.from.username
             /\ CountRequests("reply") = 0)
            <=> SenderListed)

C20_Witness ==
    /\ ParsedOk
    /\ config.allowedUsers.users = {"alice"}
    /\ last.ctx.from.username = "alice"
    /\ Len(last.emitted) = 1
    /\ last.emitted[1].type = "message"
    /\ last.requests = <<>>

\* C21: when file-URL resolution fails while an image update of an accepted
\* sender is normalized, the update is still published as one message event
\* whose Message has type IMAGE and exactly one attachment with url "".
C21_ImageWithoutUrlPublished ==
    (Handled /\ last.ctx.hasMessage /\ "photo" \in last.ctx.message.has
        /\ "text" \notin last.ctx.message.has /\ last.ctx.message.photo # <<>>
        /\ last.fail /\ last.ctx.from.present /\ SenderListed)
        => /\ Len(last.emitted) = 1
           /\ last.emitted[1].type = "message"
           /\ last.emitted[1].message.type = "IMAGE"
           /\ Len(last.emitted[1].message.attachments) = 1
           /\ last.emitted[1].message.attachments[1].url = ""

C21_Witness ==
    /\ Handled
    /\ last.ctx.message.has = {"photo"}
    /\ last.ctx.message.photo = <<Small, Big>>
    /\ last.fail
    /\ Len(last.emitted) = 1
    /\ last.emitted[1].message.type = "IMAGE"
    /\ last.emitted[1].message.attachments[1].url = ""

\* C22: an exception raised while normalizing one message update (no sender
\* information, or an image with an empty variant list) is absorbed: the
\* handler completes without throwing, publishes no event of any kind, leaves
\* the lifecycle state unchanged, and the delivering client keeps its
\* handlers, so that later updates are processed.
C22_ParseFailureAbsorbed ==
    (Handled /\ (~last.ctx.from.present
                 \/ (last.ctx.hasMessage /\ "photo" \in last.ctx.message.has
                     /\ "text" \notin last.ctx.message.has
                     /\ last.ctx.message.photo = <<>>)))
        => /\ last.out.kind = "ok"
           /\ last.emitted = <<>>
           /\ bot = last.preBot
           /\ isRunning = last.preRunning
           /\ native = last.preNative
           /\ native[last.client].active
           /\ native[last.client].handlers

C22_Witness ==
    /\ Handled
    /\ last.ctx.from.present
    /\ last.ctx.message.has = {"photo"}
    /\ last.ctx.message.photo = <<>>
    /\ last.parsed.thrown
    /\ last.out.kind = "ok"
    /\ last.emitted = <<>>

\* the calls of the event part of the adapter
EventOps == {"on", "errorHook", "handleUserJoin", "handleUserLeave",
             "dispatchMessage", "resumeMessage"}
EventOp == last.op \in EventOps
MemberOp == last.op \in {"handleUserJoin", "handleUserLeave"}

\* the events of `type` among the emitted ones, in order
EmittedOf(type) == SelectSeq(last.emitted, LAMBDA e : e.type = type)

\* C23: a membership update with a member record that cannot be normalized
\* publishes no event at all (no user_join, user_leave or error event) and
\* its handler does not fail.
C23_BadMemberDropsUpdate ==
    (MemberOp /\ \E i \in 1..Len(last.ctx.members) : ~last.ctx.members[i].present)
        => /\ last.emitted = <<>>
           /\ last.out.kind = "ok"

\* C24: every error that reaches the error hook of the native client, from
\* the client itself or from an update handler that failed, is republished
\* as exactly one error event carrying the error and its context, and the
\* running flag, the client and its state stay as they were.
C24_HookRepublishesOnce ==
    /\ (last.op = "errorHook")
          => /\ last.emitted = <<[type |-> "error", error |-> "NativeError",
                                  context |-> last.ctx]>>
             /\ isRunning = last.preRunning
             /\ bot = last.preBot
             /\ native = last.preNative
    /\ (MemberOp /\ last.out.kind # "ok")
          => /\ EmittedOf("error") = <<[type |-> "error", error |-> "TypeError",
                                        context |-> last.ctx]>>
             /\ isRunning = last.preRunning
             /\ bot = last.preBot
             /\ native = last.preNative

C24_Witness ==
    /\ last.op = "errorHook"
    /\ Len(last.emitted) = 1
    /\ last.emitted[1].type = "error"
    /\ last.emitted[1].error = "NativeError"
    /\ \E d \in 1..Len(last.deliveries) : last.deliveries[d].ev = 1
    /\ ~last.hookThrown

\* C25: a member-joined update listing n members publishes exactly n
\* user_join events, one per member in list order, a member-left update
\* publishes exactly one user_leave event, and each event's User is derived
\* from that member's own record.
C25_OneEventPerMember ==
    /\ (last.op = "handleUserJoin" /\ last.ctx.field = "new_chat_members"
           /\ \A i \in 1..Len(last.ctx.members) : last.ctx.members[i].present)
          => EmittedOf("user_join")
                = [i \in 1..Len(last.ctx.members) |->
                      [type |-> "user_join",
                       user |-> UserOf(last.ctx.members[i],
                                       ToStr(last.ctx.members[i].id))]]
    /\ (last.op = "handleUserLeave" /\ last.ctx.field = "left_chat_member"
           /\ last.ctx.members[1].present)
          => EmittedOf("user_leave")
                = <<[type |-> "user_leave",
                     user |-> UserOf(last.ctx.members[1],
                                     ToStr(last.ctx.members[1].id))]>>

\* C26: when one subscriber of an event throws, every other subscriber
\* registered for that event still receives that same event.
C26_SubscriberFailureIsolated ==
    (EventOp /\ last.bad # 0)
        => \A k \in 1..Len(last.emitted), i \in 1..Len(last.preListeners) :
              last.preListeners[i] = last.emitted[k].type
                 => \E d \in 1..Len(last.deliveries) :
                       last.deliveries[d] = [ev |-> k, to |-> i]

\* C27: every event published by a call is delivered within that call to all
\* the subscribers registered for it at that moment, in registration order.
C27_SynchronousInOrder ==
    EventOp
        => \A k \in 1..Len(last.emitted) :
              LET got == SelectSeq(last.deliveries, LAMBDA d : d.ev = k)
              IN [p \in 1..Len(got) |-> got[p].to]
                    = SubsOf(last.preListeners, last.emitted[k].type)

\* C28: events are neither buffered nor replayed: every delivery made by a
\* call is of an event published by that same call to a subscriber that was
\* registered for it before the call; registering delivers nothing.
C28_NoReplay ==
    EventOp
        => \A d \in 1..Len(last.deliveries) :
              /\ last.deliveries[d].to \in 1..Len(last.preListeners)
              /\ last.deliveries[d].ev \in 1..Len(last.emitted)
              /\ last.preListeners[last.deliveries[d].to]
                    = last.emitted[last.deliveries[d].ev].type

\* a subscriber registers for error events right after one was published
C28_Witness ==
    /\ last.op = "on"
    /\ last.ctx = "error"
    /\ last.prev = "errorHook"
    /\ last.deliveries = <<>>
    /\ listeners = Append(last.preListeners, "error")

C30_HandlersNotSerialized ==
    (last.op = "dispatchMessage" /\ last.prePending # <<>> /\ ~NeedsFile(last.ctx)
        /\ last.ctx.from.present /\ Allowed(config, ParseUser(last.ctx).user))
        => /\ Len(last.emitted) = 1
           /\ last.emitted[1].type = "message"
           /\ last.emitted[1].message.content = last.ctx.message.text
           /\ pending = last.prePending

C30_Witness ==
    /\ last.op = "dispatchMessage"
    /\ last.prePending # <<>>
    /\ "photo" \in last.prePending[1].message.has
    /\ last.ctx.message.has = {"text"}
    /\ Len(last.emitted) = 1
    /\ last.emitted[1].message.type = "TEXT"
    /\ pending = last.prePending

\* C32: the Message id is derived deterministically: it is the platform
\* prefix followed by the native message id when the update has one and by
\* the current time otherwise, and a second normalization of the identical
\* update yields the same id whatever the file lookup does.
C32_MessageIdDeterministic ==
    ParsedOk
        => /\ last.parsed.message.id = (IF last.ctx.hasMessage THEN "tg_5" ELSE "tg_1000")
           /\ \A again \in BOOLEAN :
                 LET p == ParseMessage(last.ctx, bot, config, again)
                 IN ~p.thrown /\ p.message.id = last.parsed.message.id

C32_Witness ==
    /\ ParsedOk
    /\ ~last.ctx.hasMessage
    /\ last.parsed.message.id = "tg_1000"

\* C33: in every Message produced by normalization, the types IMAGE, AUDIO,
\* DOCUMENT and STICKER carry exactly one attachment whose type equals the
\* Message type, and the types TEXT, LOCATION and CONTACT carry none.
C33_AttachmentsMatchType ==
    ParsedOk
        => LET m == last.parsed.message
           IN /\ m.type \in {"IMAGE", "AUDIO", "DOCUMENT", "STICKER", "TEXT", "LOCATION",
                             "CONTACT"}
              /\ m.type \in {"IMAGE", "AUDIO", "DOCUMENT", "STICKER"}
                    => Len(m.attachments) = 1 /\ m.attachments[1].type = m.type
              /\ m.type \in {"TEXT", "LOCATION", "CONTACT"} => m.attachments = <<>>

C33_Witness ==
    /\ ParsedOk
    /\ last.ctx.message.has = {"document"}
    /\ last.parsed.message.type = "DOCUMENT"
    /\ Len(last.parsed.message.attachments) = 1
    /\ last.parsed.message.attachments[1].type = "DOCUMENT"

\* the defaults every produced User carries
UserDefaults(u) ==
    /\ u.role = "user"
    /\ ~u.isBlocked
    /\ u.preferences.notifications
    /\ u.preferences.aiEnabled
    /\ u.preferences.voiceEnabled
    /\ u.preferences.timezone = "UTC"
    /\ u.platform = "telegram"

\* C34: every User the adapter produces, from the sender of a message or
\* from a membership record, has role USER, isBlocked false, the three
\* preference toggles true and timezone 'UTC', and two produced Users have
\* equal ids exactly when their native ids are equal.
C34_UserDefaultsAndId ==
    (Handled /\ last.emitted # <<>>)
        => LET u == last.emitted[1].user
           IN /\ UserDefaults(u)
              /\ u.id = "tg_" \o IdString(last.ctx.from.id)
              /\ \A m \in {Member1, Member2} :
                    LET v == ParseUserFromMember(m).user
                    IN /\ UserDefaults(v)
                       /\ (u.id = v.id) <=> (last.ctx.from.id = m.id)

C34_Witness ==
    /\ Handled
    /\ last.emitted # <<>>
    /\ last.ctx.from.id = 42
    /\ last.ctx.from.username = ""
    /\ last.emitted[1].user.id = ParseUserFromMember(Member1).user.id
    /\ last.emitted[1].user.id # ParseUserFromMember(Member2).user.id

\* C35: a location update yields a Message of type LOCATION without
\* attachment, with content 'Location: <latitude>, <longitude>' and with
\* metadata holding the chat id, the chat type and the native message id
\* next to the latitude and the longitude.
C35_LocationMessage ==
    (ParsedOk /\ last.ctx.hasMessage /\ "location" \in last.ctx.message.has
        /\ last.ctx.message.has \cap {"text", "photo", "voice", "document", "sticker"} = {})
        => LET m == last.parsed.message
           IN /\ m.type = "LOCATION"
              /\ m.attachments = <<>>
              /\ m.content = "Location: 1, 2"
              /\ m.metadata.chatId = last.ctx.chat.id
              /\ m.metadata.chatType = last.ctx.chat.type
              /\ m.metadata.messageId = last.ctx.message.message_id
              /\ m.metadata.extra = <<last.ctx.message.location.latitude,
                                      last.ctx.message.location.longitude>>

C35_Witness ==
    /\ ParsedOk
    /\ last.ctx.message.has = {"location"}
    /\ last.parsed.message.type = "LOCATION"
    /\ last.parsed.message.content = "Location: 1, 2"
    /\ last.parsed.message.metadata.extra = <<1, 2>>

\* C37: one handled message update has at most one outcome: it never
\* publishes more than one message event, never sends more than one refusal
\* reply, and never does both.
C37_AtMostOneOutcome ==
    Handled
        => /\ Len(last.emitted) <= 1
           /\ CountRequests("reply") <= 1
           /\ ~(last.emitted # <<>> /\ CountRequests("reply") > 0)

C37_Witness ==
    /\ Handled
    /\ Cardinality(last.ctx.message.has) = 7
    /\ Len(last.emitted) = 1
    /\ last.emitted[1].type = "message"
    /\ CountRequests("reply") = 0

\* C39: for an update from a sender the allow-list rejects, the only
\* request made on the native client is the refusal reply; no file-URL
\* resolution is requested for it.
C39_RejectedSenderOnlyRefusal ==
    (ParsedOk /\ last.ctx.from.present /\ ~SenderListed)
        => \A i \in 1..Len(last.requests) : last.requests[i].method = "reply"

\* C38: after any sequence of initialize(), start() and stop() calls at
\* most one native client created by the adapter is launched, and once
\* stop() has returned none of them is still polling or listening.
C38_AtMostOneLaunched ==
    /\ Cardinality({c \in 1..Len(native) : native[c].active}) <= 1
    /\ last.op = "stop" => \A c \in 1..Len(native) : ~native[c].active

\* the raw values of an *_ENABLED variable that switch a platform on
Enables(value) == value \in {"true", "True", "1"}

\* C36: configuration validation rejects a setup with no enabled platform
\* and a setup in which an enabled platform lacks its credential: isValid()
\* answers false, and bootstrap exits with status 1 having started neither
\* the database connection nor the bot.
C36_InvalidSetupStartsNothing ==
    (app.phase \notin {"off", "boot"}
        /\ \/ \A name \in PlatformNames : ~Enables(app.env.platforms[name].enabled)
           \/ \E name \in PlatformNames :
                 /\ Enables(app.env.platforms[name].enabled)
                 /\ app.env.platforms[name].credential = "")
        => /\ ~app.valid
           /\ app.exited
           /\ app.code = 1
           /\ app.by = "bootstrap"
           /\ app.dbConnects = 0
           /\ ~app.dbConnected
           /\ ~app.botCreated
           /\ app.botStarts = 0

C36_Witness ==
    /\ app.phase = "failed"
    /\ app.env.platforms["telegram"] = [enabled |-> "True", credential |-> ""]
    /\ app.env.platforms["whatsapp"] = [enabled |-> "true", credential |-> "x"]
    /\ ~app.valid
    /\ app.exited
    /\ app.code = 1
    /\ app.dbConnects = 0

\* C40: graceful shutdown is ordered: the database disconnect is called only
\* right after a bot stop completed, the process exits with status 0 only
\* after a shutdown completed both steps, it exits with status 1 as soon as
\* one of the two steps fails, and a shutdown whose bot stop failed never
\* disconnects the database.
C40_ShutdownOrdered ==
    /\ \A j \in 1..Len(app.trace) :
          app.trace[j] = "disconnect called" => (j > 1 /\ app.trace[j - 1] = "stop ok")
    /\ (app.exited /\ app.by = "shutdown" /\ app.code = 0)
          => \E r \in 1..Len(app.runs) : app.runs[r] = [stop |-> "ok", disconnect |-> "ok"]
    /\ \A r \in 1..Len(app.runs) :
          /\ (app.runs[r].stop = "failed" \/ app.runs[r].disconnect = "failed")
                => (app.exited /\ app.code = 1)
          /\ app.runs[r].stop = "failed" => app.runs[r].disconnect = "none"
          /\ app.runs[r].disconnect = "ok" => (app.exited /\ app.code = 0)

C40_Witness ==
    /\ app.exited
    /\ app.by = "shutdown"
    /\ app.code = 0
    /\ app.trace = <<"stop called", "stop called", "stop ok", "disconnect called",
                     "disconnect ok">>
    /\ ~app.dbConnected

\* C31: Two adapter instances share no mutable state. A call made on the
\* first adapter (initialize, start, stop, on) leaves every field of the
\* second adapter as it was; a call made on the second adapter (initialize,
\* start, stop, on, an inbound update) leaves the first adapter's lifecycle
\* flag, client reference, native clients, allow-list and subscribers as
\* they were; and the second adapter admits or rejects the sender of an
\* update by its own allow-list, whatever the first adapter's list holds.
OtherOps == {"other.initialize", "other.start", "other.stop", "other.on",
             "other.handleMessage"}
C31_InstancesShareNothing ==
    [][/\ last'.op \notin OtherOps => other' = other
       /\ last'.op \in OtherOps
             => UNCHANGED <<config, bot, isRunning, native, listeners, sent, pending>>
       /\ last'.op = "other.handleMessage"
             => (last'.emitted # <<>>
                   <=> \/ last'.ctx.from.username \in other.config.allowedUsers.users
                       \/ ToStr(last'.ctx.from.id) \in other.config.allowedUsers.users)]_vars
\* both adapters hold a launched native client and a subscriber, their
\* allow-lists differ, and the second adapter has just turned away a sender
\* that only the first adapter's list names
C31_Witness ==
    /\ bot # NULL /\ native[bot].active /\ listeners # <<>>
    /\ other.bot # NULL /\ other.native[other.bot].active /\ other.listeners # <<>>
    /\ config.allowedUsers.users # other.config.allowedUsers.users
    /\ last.op = "other.handleMessage"
    /\ ToStr(last.ctx.from.id) \in config.allowedUsers.users
    /\ last.emitted = <<>>

====
